---- MODULE Spec2Model ----
(***************************************************************************)
(* Task lifecycle protocol of the text generation demo:                    *)
(*   code_demo/settings.py    Settings (status constants, TTL, key prefix) *)
(*   code_demo/api_server.py  TextGenerationProducer (create / get status) *)
(*   code_demo/client_test.py TextGenerationClient (submit / poll)         *)
(* The Status Store is Redis (SETEX / GET with key expiry), the Work       *)
(* Channel is a durable RabbitMQ queue.                                    *)
(***************************************************************************)
EXTENDS Integers, Sequences, FiniteSets, TLC

\* ------------------------------------------------------------------ bounds
MaxTasks == 1          \* number of create_task calls explored
MaxAttempts == 2       \* largest max_attempts handed to poll_result
MaxInterval == 2       \* largest poll_interval handed to poll_result
TASK_TTL == 2          \* settings.TASK_TTL (env configurable), in clock ticks
MaxTime == TASK_TTL + 1
NumWorkers == 2        \* competing consumers of the queue
MaxRedeliver == 1      \* deliveries the channel requeues

\* --------------------------------------------------------------- settings
TASK_PREFIX == "task:"
STATUS_PENDING == "PENDING"
STATUS_PROCESSING == "PROCESSING"
STATUS_COMPLETED == "COMPLETED"
STATUS_FAILED == "FAILED"

get_task_key(task_id) == <<TASK_PREFIX, task_id>>

\* ----------------------------------------------------------- value domains
TaskIds == 1..MaxTasks
\* ids a caller may ask about: one more than can ever be created
QueryIds == 1..(MaxTasks + 1)
Keys == {get_task_key(t) : t \in QueryIds}

\* Python values: None, and dict as its sequence of items
PyNone == [none |-> TRUE, items |-> <<>>]
PyDict(items) == [none |-> FALSE, items |-> items]
\* the requests a submitter makes: a prompt, with or without metadata
Requests == {[prompt |-> "x", metadata |-> PyNone],
             [prompt |-> "Write a haiku",
              metadata |-> PyDict(<<[k |-> "source", v |-> "api_test"]>>)]}

\* exceptions raised by the redis / pika clients
StoreErrors == {[type |-> "ConnectionError", msg |-> "Connection refused"],
                [type |-> "TimeoutError", msg |-> "Timeout reading from socket"]}
NoError == [type |-> "", msg |-> ""]
str(e) == e.msg

\* -------------------------------------------------------------------- JSON
FieldOrder == <<"task_id", "prompt", "metadata", "created_at", "status",
                "result", "error", "completed_at">>

json_encode_field(f, v) ==
    IF f = "metadata" THEN [object |-> v.items] ELSE [scalar |-> v]

json_decode_field(f, j) ==
    IF f = "metadata" THEN PyDict(j.object) ELSE j.scalar

\* json.dumps of a dict: the members of the object, absent keys omitted
json_dumps(d) ==
    LET present == SelectSeq(FieldOrder, LAMBDA f : f \in DOMAIN d)
    IN  [i \in DOMAIN present |->
            [name |-> present[i], value |-> json_encode_field(present[i], d[present[i]])]]

\* json.loads of an object: a dict with exactly the members of the text
json_loads(s) ==
    LET names == {s[i].name : i \in DOMAIN s}
        at(f) == CHOOSE i \in DOMAIN s : s[i].name = f
    IN  [f \in names |-> json_decode_field(f, s[at(f)].value)]

\* ------------------------------------------------------------------- state
VARIABLES
    now,        \* time.time(), in ticks
    store,      \* Redis: key -> Nil or [val, expire]
    queue,      \* RabbitMQ queue: messages ready for delivery
    nextId,     \* number of uuid4() values handed out so far
    cpc,        \* client position: idle / publish / poll / sleep
    cargs,      \* arguments and locals of the running client call
    cret,       \* what the client call that just ended returned or raised
    resp,       \* the get_task_status call just made: argument, outcome, value
    wpc,        \* worker position: idle / claimed / mp_write / working / mt_write / ack
    wmsg,       \* the delivery each worker holds
    wrec,       \* the record each worker has read and is about to write back
    redelivered,\* number of deliveries the channel has requeued
    hist        \* history: what happened to each task id

clientVars == <<cpc, cargs>>
workerVars == <<wpc, wmsg, wrec, redelivered>>

Nil == [val |-> <<>>, expire |-> 0]
NoneValue == [is_none |-> TRUE]
NoArgs == [task_id |-> 0, poll_interval |-> 0, max_attempts |-> 0,
           attempt |-> 0, wake |-> 0, lookups |-> 0, slept |-> 0, payload |-> <<>>]
NoRet == [kind |-> "none", why |-> "", task_id |-> 0, poll_interval |-> 0,
          max_attempts |-> 0, lookups |-> 0, slept |-> 0, value |-> NoneValue]
NoResp == [task_id |-> 0, caller |-> "", kind |-> "none", value |-> NoneValue,
           err |-> NoError, miss |-> FALSE]
\* per task id: the arguments of create_task, when its SETEX was done (-1: not
\* done), whether its publish was done or failed, whether create_task raised
\* or returned, whether a worker has written the record or acknowledged
NoHist == [prompt |-> "", metadata |-> PyNone, stored_at |-> -1, published |-> FALSE,
           pubfailed |-> FALSE, raised |-> FALSE, returned |-> FALSE,
           touched |-> FALSE, acked |-> FALSE]
NoMsg == [body |-> <<>>, message_id |-> 0]
NoRec == [task_id |-> 0]

\* ------------------------------------------------------------------- Redis
redis_setex(st, key, ttl, val, t) ==
    [st EXCEPT ![key] = [val |-> val, expire |-> t + ttl]]

\* GET: the value, or the empty text for a missing key
redis_get(st, key) == st[key].val

\* faulty variant: keys outlive their time to live
expire_keys_never(st, t) == st

\* keys whose time to live has elapsed at time t are gone
expire_keys(st, t) ==
    [k \in DOMAIN st |-> IF st[k].val # <<>> /\ st[k].expire <= t THEN Nil ELSE st[k]]

\* ---------------------------------------------------------------- producer
\* faulty variant: the metadata argument is not put into the payload
task_payload_no_metadata(task_id, prompt, metadata, t) ==
    [task_id |-> task_id, prompt |-> prompt, metadata |-> PyDict(<<>>),
     created_at |-> t, status |-> STATUS_PENDING]

task_payload(task_id, prompt, metadata, t) ==
    [task_id |-> task_id,
     prompt |-> prompt,
     metadata |-> IF metadata.none \/ metadata.items = <<>> THEN PyDict(<<>>) ELSE metadata,
     created_at |-> t,
     status |-> STATUS_PENDING]

\* faulty variant: the message carries the task id and the prompt only
message_id_and_prompt(payload) ==
    [body |-> json_dumps([task_id |-> payload.task_id, prompt |-> payload.prompt]),
     message_id |-> payload.task_id]

message(payload) == [body |-> json_dumps(payload), message_id |-> payload.task_id]

NotFoundResp(task_id) ==
    [task_id |-> task_id, status |-> "NOT_FOUND", error |-> "Task not found or expired"]

ErrorResp(task_id, e) ==
    [task_id |-> task_id, status |-> "ERROR", error |-> str(e)]

\* faulty variant: no except clause, a failed read propagates
get_task_status_no_except(st, task_id, e) ==
    IF e # NoError
    THEN [kind |-> "raise", value |-> [exc |-> e]]
    ELSE LET task_data == redis_get(st, get_task_key(task_id))
         IN  IF task_data = <<>>
             THEN [kind |-> "return", value |-> NotFoundResp(task_id)]
             ELSE [kind |-> "return", value |-> json_loads(task_data)]

\* get_task_status: e is the exception the redis read raises, NoError if none
get_task_status(st, task_id, e) ==
    IF e # NoError
    THEN [kind |-> "return", value |-> ErrorResp(task_id, e)]
    ELSE LET task_data == redis_get(st, get_task_key(task_id))
         IN  IF task_data = <<>>
             THEN [kind |-> "return", value |-> NotFoundResp(task_id)]
             ELSE [kind |-> "return", value |-> json_loads(task_data)]

RespOf(st, task_id, e, caller) ==
    LET r == get_task_status(st, task_id, e)
    IN  [task_id |-> task_id, caller |-> caller, kind |-> r.kind, value |-> r.value,
         err |-> e,
         miss |-> (redis_get(st, get_task_key(task_id)) = <<>>)]

\* faulty variant: a failed SETEX is swallowed and the publish still happens
CreateStore_swallow(prompt, metadata, p, n, e) ==
    /\ cpc = "idle"
    /\ nextId < MaxTasks
    /\ LET task_id == nextId + 1
           payload == task_payload(task_id, prompt, metadata, now)
       IN  /\ nextId' = task_id
           /\ store' = IF e # NoError THEN store
                        ELSE redis_setex(store, get_task_key(task_id), TASK_TTL,
                                         json_dumps(payload), now)
           /\ cpc' = "publish"
           /\ cargs' = [NoArgs EXCEPT !.task_id = task_id, !.poll_interval = p,
                                      !.max_attempts = n, !.payload = payload]
           /\ cret' = NoRet
           /\ hist' = [hist EXCEPT ![task_id] =
                          [NoHist EXCEPT !.prompt = prompt, !.metadata = metadata,
                                         !.stored_at = IF e # NoError THEN -1 ELSE now]]
    /\ resp' = NoResp
    /\ UNCHANGED <<now, queue, workerVars>>

\* create_task up to and including the SETEX (api_server.py 75-94)
CreateStore(prompt, metadata, p, n, e) ==
    /\ cpc = "idle"
    /\ nextId < MaxTasks
    /\ LET task_id == nextId + 1
           payload == task_payload(task_id, prompt, metadata, now)
       IN  /\ nextId' = task_id
           /\ IF e # NoError
              THEN /\ store' = store
                   /\ cpc' = "idle"
                   /\ cargs' = NoArgs
                   /\ cret' = [NoRet EXCEPT !.kind = "raise", !.why = "create",
                                            !.task_id = task_id, !.value = [exc |-> e]]
                   /\ hist' = [hist EXCEPT ![task_id] =
                                  [NoHist EXCEPT !.prompt = prompt, !.metadata = metadata,
                                                 !.raised = TRUE]]
              ELSE /\ store' = redis_setex(store, get_task_key(task_id), TASK_TTL,
                                           json_dumps(payload), now)
                   /\ cpc' = "publish"
                   /\ cargs' = [NoArgs EXCEPT !.task_id = task_id, !.poll_interval = p,
                                              !.max_attempts = n, !.payload = payload]
                   /\ cret' = NoRet
                   /\ hist' = [hist EXCEPT ![task_id] =
                                  [NoHist EXCEPT !.prompt = prompt, !.metadata = metadata,
                                                 !.stored_at = now]]
    /\ resp' = NoResp
    /\ UNCHANGED <<now, queue, workerVars>>

\* faulty variant: a failed basic_publish is swallowed and the id returned
CreatePublish_swallow(e) ==
    /\ cpc = "publish"
    /\ queue' = IF e # NoError THEN queue ELSE Append(queue, message(cargs.payload))
    /\ cpc' = "poll"
    /\ cargs' = [cargs EXCEPT !.attempt = 1, !.payload = <<>>]
    /\ cret' = NoRet
    /\ hist' = [hist EXCEPT ![cargs.task_id].published = (e = NoError),
                            ![cargs.task_id].pubfailed = (e # NoError),
                            ![cargs.task_id].returned = TRUE]
    /\ resp' = NoResp
    /\ UNCHANGED <<now, store, nextId, workerVars>>

\* faulty variant: a publish that failed after the message went out is retried
CreatePublish_retry(e) ==
    /\ cpc = "publish"
    /\ queue' = Append(queue, message(cargs.payload))
    /\ IF e # NoError
       THEN /\ cpc' = "publish"
            /\ cargs' = cargs
       ELSE /\ cpc' = "poll"
            /\ cargs' = [cargs EXCEPT !.attempt = 1, !.payload = <<>>]
    /\ cret' = NoRet
    /\ hist' = [hist EXCEPT ![cargs.task_id].published = TRUE,
                            ![cargs.task_id].returned = (e = NoError)]
    /\ resp' = NoResp
    /\ UNCHANGED <<now, store, nextId, workerVars>>

\* faulty variant: a failed publish rolls the store write back
CreatePublish_rollback(e) ==
    /\ cpc = "publish"
    /\ IF e # NoError
       THEN /\ queue' = queue
            /\ store' = [store EXCEPT ![get_task_key(cargs.task_id)] = Nil]
            /\ cpc' = "idle"
            /\ cargs' = NoArgs
            /\ cret' = [NoRet EXCEPT !.kind = "raise", !.why = "create",
                                     !.task_id = cargs.task_id, !.value = [exc |-> e]]
            /\ hist' = [hist EXCEPT ![cargs.task_id].raised = TRUE,
                                    ![cargs.task_id].pubfailed = TRUE]
       ELSE /\ queue' = Append(queue, message(cargs.payload))
            /\ store' = store
            /\ cpc' = "poll"
            /\ cargs' = [cargs EXCEPT !.attempt = 1, !.payload = <<>>]
            /\ cret' = NoRet
            /\ hist' = [hist EXCEPT ![cargs.task_id].published = TRUE,
                                    ![cargs.task_id].returned = TRUE]
    /\ resp' = NoResp
    /\ UNCHANGED <<now, nextId, workerVars>>

\* create_task from basic_publish to its return, then submit_and_wait
\* enters poll_result (api_server.py 96-113, client_test.py 32-35, 111-112)
CreatePublish(e) ==
    /\ cpc = "publish"
    /\ IF e # NoError
       THEN /\ queue' = queue
            /\ cpc' = "idle"
            /\ cargs' = NoArgs
            /\ cret' = [NoRet EXCEPT !.kind = "raise", !.why = "create",
                                     !.task_id = cargs.task_id, !.value = [exc |-> e]]
            /\ hist' = [hist EXCEPT ![cargs.task_id].raised = TRUE,
                                    ![cargs.task_id].pubfailed = TRUE]
       ELSE /\ queue' = Append(queue, message(cargs.payload))
            /\ cpc' = "poll"
            /\ cargs' = [cargs EXCEPT !.attempt = 1, !.payload = <<>>]
            /\ cret' = NoRet
            /\ hist' = [hist EXCEPT ![cargs.task_id].published = TRUE,
                                    ![cargs.task_id].returned = TRUE]
    /\ resp' = NoResp
    /\ UNCHANGED <<now, store, nextId, workerVars>>

\* ------------------------------------------------------------------ client
\* faulty variant: the read renews the time to live of the record it finds
GetStatus_touch(task_id, e) ==
    /\ cpc = "idle"
    /\ resp' = RespOf(store, task_id, e, "caller")
    /\ cret' = NoRet
    /\ store' = IF e = NoError /\ redis_get(store, get_task_key(task_id)) # <<>>
                THEN [store EXCEPT ![get_task_key(task_id)].expire = now + TASK_TTL]
                ELSE store
    /\ UNCHANGED <<now, queue, nextId, clientVars, workerVars, hist>>

\* a direct get_task_status call by a caller of the producer
GetStatus(task_id, e) ==
    /\ cpc = "idle"
    /\ resp' = RespOf(store, task_id, e, "caller")
    /\ cret' = NoRet
    /\ UNCHANGED <<now, store, queue, nextId, clientVars, workerVars, hist>>

TimeoutReturn == NoneValue

\* the status tests of poll_result (client_test.py 68, 74, 80), each after a
\* faulty variant that misses a case
is_terminal_completed_only(status) == status = STATUS_COMPLETED
is_terminal(status) == status = STATUS_COMPLETED \/ status = STATUS_FAILED

is_lost_not_found_only(status) == status \in {"NOT_FOUND"}
is_lost(status) == status \in {"NOT_FOUND", "ERROR"}

\* range(1, max_attempts + 1) has a value after attempt (the faulty variant
\* goes round once more)
loop_continues_one_more(attempt, max_attempts) == attempt <= max_attempts
loop_continues(attempt, max_attempts) == attempt < max_attempts

\* poll_result returns: which return statement, after how many lookups and how
\* much sleep, with what value
Returned(why, lookups, slept, value) ==
    [kind |-> "return", why |-> why, task_id |-> cargs.task_id,
     poll_interval |-> cargs.poll_interval, max_attempts |-> cargs.max_attempts,
     lookups |-> lookups, slept |-> slept, value |-> value]

\* faulty variant: no sleep after the last attempt, the timeout is returned
\* right after the last lookup
PollStep_no_last_sleep(e) ==
    /\ cpc = "poll"
    /\ LET r == RespOf(store, cargs.task_id, e, "poll_result")
           task_data == r.value
           status == IF "status" \in DOMAIN task_data THEN task_data.status ELSE "UNKNOWN"
           lookups == cargs.lookups + 1
       IN  /\ resp' = r
           /\ IF is_terminal(status)
              THEN /\ cpc' = "idle"
                   /\ cargs' = NoArgs
                   /\ cret' = Returned("terminal", lookups, cargs.slept, task_data)
              ELSE IF is_lost(status)
              THEN /\ cpc' = "idle"
                   /\ cargs' = NoArgs
                   /\ cret' = Returned(status, lookups, cargs.slept, NoneValue)
              ELSE IF ~loop_continues(cargs.attempt, cargs.max_attempts)
              THEN /\ cpc' = "idle"
                   /\ cargs' = NoArgs
                   /\ cret' = Returned("timeout", lookups, cargs.slept, TimeoutReturn)
              ELSE /\ cpc' = "sleep"
                   /\ cargs' = [cargs EXCEPT !.lookups = lookups,
                                             !.wake = now + cargs.poll_interval]
                   /\ cret' = NoRet
    /\ UNCHANGED <<now, store, queue, nextId, workerVars, hist>>

\* one iteration of the loop of poll_result up to its return or its sleep
\* (client_test.py 59-86)
PollStep(e) ==
    /\ cpc = "poll"
    /\ LET r == RespOf(store, cargs.task_id, e, "poll_result")
           task_data == r.value
           status == IF "status" \in DOMAIN task_data THEN task_data.status ELSE "UNKNOWN"
           lookups == cargs.lookups + 1
       IN  /\ resp' = r
           /\ IF is_terminal(status)
              THEN /\ cpc' = "idle"
                   /\ cargs' = NoArgs
                   /\ cret' = Returned("terminal", lookups, cargs.slept, task_data)
              ELSE IF is_lost(status)
              THEN /\ cpc' = "idle"
                   /\ cargs' = NoArgs
                   /\ cret' = Returned(status, lookups, cargs.slept, NoneValue)
              ELSE /\ cpc' = "sleep"
                   /\ cargs' = [cargs EXCEPT !.lookups = lookups,
                                             !.wake = now + cargs.poll_interval]
                   /\ cret' = NoRet
    /\ UNCHANGED <<now, store, queue, nextId, workerVars, hist>>

\* time.sleep returns; the loop goes round or is exhausted (client_test.py 86-90)
Wake ==
    /\ cpc = "sleep"
    /\ now = cargs.wake
    /\ LET slept == cargs.slept + cargs.poll_interval
       IN  IF loop_continues(cargs.attempt, cargs.max_attempts)
           THEN /\ cpc' = "poll"
                /\ cargs' = [cargs EXCEPT !.attempt = cargs.attempt + 1, !.slept = slept]
                /\ cret' = NoRet
           ELSE /\ cpc' = "idle"
                /\ cargs' = NoArgs
                /\ cret' = Returned("timeout", cargs.lookups, slept, TimeoutReturn)
    /\ resp' = NoResp
    /\ UNCHANGED <<now, store, queue, nextId, workerVars, hist>>

\* ------------------------------------------------------------------ worker
\* The worker process (text_worker.py) and the transitions it applies to the
\* store: mark_processing, mark_completed, mark_failed.  Each transition
\* reads the record, modifies it and writes the whole record back with a
\* fresh TTL; a missing record makes it a no-op.
Workers == 1..NumWorkers
Outcomes == {[ok |-> TRUE, text |-> "five seven five"],
             [ok |-> FALSE, text |-> "generation failed"]}

\* the record with the given fields set, the other fields kept
with_fields(rec, upd) ==
    [f \in DOMAIN rec \cup DOMAIN upd |-> IF f \in DOMAIN upd THEN upd[f] ELSE rec[f]]

\* faulty variant: the record written back holds the task id and the status only
processing_record_bare(rec) == [task_id |-> rec.task_id, status |-> STATUS_PROCESSING]

processing_record(rec) == with_fields(rec, [status |-> STATUS_PROCESSING])

terminal_record(rec, outcome, t) ==
    IF outcome.ok
    THEN with_fields(rec, [status |-> STATUS_COMPLETED, completed_at |-> t,
                           result |-> outcome.text])
    ELSE with_fields(rec, [status |-> STATUS_FAILED, completed_at |-> t,
                           error |-> outcome.text])

TaskOf(msg) == json_loads(msg.body).task_id

\* the channel hands the message at the head of the queue to the first idle
\* worker
Deliver(w) ==
    /\ wpc[w] = "idle"
    /\ \A v \in Workers : wpc[v] = "idle" => w <= v
    /\ queue # <<>>
    /\ wmsg' = [wmsg EXCEPT ![w] = Head(queue)]
    /\ queue' = Tail(queue)
    /\ wpc' = [wpc EXCEPT ![w] = "claimed"]
    /\ resp' = NoResp
    /\ cret' = NoRet
    /\ UNCHANGED <<now, store, nextId, clientVars, wrec, redelivered, hist>>

\* faulty variant: a missing record is created anew from the delivered payload
MarkProcessingRead_recreate(w) ==
    /\ wpc[w] = "claimed"
    /\ LET task_data == redis_get(store, get_task_key(TaskOf(wmsg[w])))
           found == IF task_data = <<>> THEN wmsg[w].body ELSE task_data
       IN  /\ wpc' = [wpc EXCEPT ![w] = "mp_write"]
           /\ wrec' = [wrec EXCEPT ![w] = processing_record(json_loads(found))]
    /\ resp' = NoResp
    /\ cret' = NoRet
    /\ UNCHANGED <<now, store, queue, nextId, clientVars, wmsg, redelivered, hist>>

\* mark_processing, the read: a missing record ends the call as a no-op
MarkProcessingRead(w) ==
    /\ wpc[w] = "claimed"
    /\ LET task_data == redis_get(store, get_task_key(TaskOf(wmsg[w])))
       IN  IF task_data = <<>>
           THEN /\ wpc' = [wpc EXCEPT ![w] = "working"]
                /\ wrec' = wrec
           ELSE /\ wpc' = [wpc EXCEPT ![w] = "mp_write"]
                /\ wrec' = [wrec EXCEPT ![w] = processing_record(json_loads(task_data))]
    /\ resp' = NoResp
    /\ cret' = NoRet
    /\ UNCHANGED <<now, store, queue, nextId, clientVars, wmsg, redelivered, hist>>

\* mark_processing, the write of the whole record
MarkProcessingWrite(w) ==
    /\ wpc[w] = "mp_write"
    /\ store' = redis_setex(store, get_task_key(wrec[w].task_id), TASK_TTL,
                            json_dumps(wrec[w]), now)
    /\ wpc' = [wpc EXCEPT ![w] = "working"]
    /\ wrec' = [wrec EXCEPT ![w] = NoRec]
    /\ resp' = NoResp
    /\ cret' = NoRet
    /\ hist' = [hist EXCEPT ![wrec[w].task_id].touched = TRUE]
    /\ UNCHANGED <<now, queue, nextId, clientVars, wmsg, redelivered>>

\* faulty variant: a failure of the work is not reported, the worker goes
\* straight to its acknowledgment
MarkTerminalRead_drop_failure(w, outcome) ==
    /\ wpc[w] = "working"
    /\ LET task_data == redis_get(store, get_task_key(TaskOf(wmsg[w])))
       IN  IF task_data = <<>> \/ ~outcome.ok
           THEN /\ wpc' = [wpc EXCEPT ![w] = "ack"]
                /\ wrec' = wrec
           ELSE /\ wpc' = [wpc EXCEPT ![w] = "mt_write"]
                /\ wrec' = [wrec EXCEPT ![w] =
                               terminal_record(json_loads(task_data), outcome, now)]
    /\ resp' = NoResp
    /\ cret' = NoRet
    /\ UNCHANGED <<now, store, queue, nextId, clientVars, wmsg, redelivered, hist>>

\* the work is over; mark_completed / mark_failed, the read
MarkTerminalRead(w, outcome) ==
    /\ wpc[w] = "working"
    /\ LET task_data == redis_get(store, get_task_key(TaskOf(wmsg[w])))
       IN  IF task_data = <<>>
           THEN /\ wpc' = [wpc EXCEPT ![w] = "ack"]
                /\ wrec' = wrec
           ELSE /\ wpc' = [wpc EXCEPT ![w] = "mt_write"]
                /\ wrec' = [wrec EXCEPT ![w] =
                               terminal_record(json_loads(task_data), outcome, now)]
    /\ resp' = NoResp
    /\ cret' = NoRet
    /\ UNCHANGED <<now, store, queue, nextId, clientVars, wmsg, redelivered, hist>>

\* mark_completed / mark_failed, the write of the whole record
MarkTerminalWrite(w) ==
    /\ wpc[w] = "mt_write"
    /\ store' = redis_setex(store, get_task_key(wrec[w].task_id), TASK_TTL,
                            json_dumps(wrec[w]), now)
    /\ wpc' = [wpc EXCEPT ![w] = "ack"]
    /\ wrec' = [wrec EXCEPT ![w] = NoRec]
    /\ resp' = NoResp
    /\ cret' = NoRet
    /\ hist' = [hist EXCEPT ![wrec[w].task_id].touched = TRUE]
    /\ UNCHANGED <<now, queue, nextId, clientVars, wmsg, redelivered>>

\* the worker acknowledges the delivery it holds
Ack(w) ==
    /\ wpc[w] = "ack"
    /\ hist' = [hist EXCEPT ![TaskOf(wmsg[w])].acked = TRUE]
    /\ wpc' = [wpc EXCEPT ![w] = "idle"]
    /\ wmsg' = [wmsg EXCEPT ![w] = NoMsg]
    /\ resp' = NoResp
    /\ cret' = NoRet
    /\ UNCHANGED <<now, store, queue, nextId, clientVars, wrec, redelivered>>

\* the worker dies holding an unacknowledged delivery: the channel requeues it
Crash(w) ==
    /\ wpc[w] # "idle"
    /\ redelivered < MaxRedeliver
    /\ redelivered' = redelivered + 1
    /\ queue' = <<wmsg[w]>> \o queue
    /\ wpc' = [wpc EXCEPT ![w] = "idle"]
    /\ wmsg' = [wmsg EXCEPT ![w] = NoMsg]
    /\ wrec' = [wrec EXCEPT ![w] = NoRec]
    /\ resp' = NoResp
    /\ cret' = NoRet
    /\ UNCHANGED <<now, store, nextId, clientVars, hist>>

\* the channel gives up on a slow worker and requeues its delivery while the
\* worker carries on
Redeliver(w) ==
    /\ wpc[w] # "idle"
    /\ redelivered < MaxRedeliver
    /\ redelivered' = redelivered + 1
    /\ queue' = <<wmsg[w]>> \o queue
    /\ resp' = NoResp
    /\ cret' = NoRet
    /\ UNCHANGED <<now, store, nextId, clientVars, wpc, wmsg, wrec, hist>>

\* ------------------------------------------------------------------- clock
\* time passes; a sleeping client is woken exactly when its interval is over
Tick ==
    /\ now < MaxTime
    /\ ~(cpc = "sleep" /\ now >= cargs.wake)
    /\ now' = now + 1
    /\ store' = expire_keys(store, now + 1)
    /\ resp' = NoResp
    /\ cret' = NoRet
    /\ UNCHANGED <<queue, nextId, clientVars, workerVars, hist>>

vars == <<now, store, queue, nextId, cpc, cargs, cret, resp, wpc, wmsg, wrec,
          redelivered, hist>>

Init ==
    /\ now = 0
    /\ store = [k \in Keys |-> Nil]
    /\ queue = <<>>
    /\ nextId = 0
    /\ cpc = "idle"
    /\ cargs = NoArgs
    /\ cret = NoRet
    /\ resp = NoResp
    /\ wpc = [w \in Workers |-> "idle"]
    /\ wmsg = [w \in Workers |-> NoMsg]
    /\ wrec = [w \in Workers |-> NoRec]
    /\ redelivered = 0
    /\ hist = [t \in TaskIds |-> NoHist]

Failure(errors) == errors \cup {NoError}
ChannelErrors == {[type |-> "AMQPConnectionError", msg |-> "Connection closed"]}

Next ==
    \/ \E req \in Requests, p \in 1..MaxInterval, n \in 1..MaxAttempts,
          e \in Failure(StoreErrors) :
            CreateStore(req.prompt, req.metadata, p, n, e)
    \/ \E e \in Failure(ChannelErrors) : CreatePublish(e)
    \/ \E task_id \in QueryIds, e \in Failure(StoreErrors) : GetStatus(task_id, e)
    \/ \E e \in Failure(StoreErrors) : PollStep(e)
    \/ Wake
    \/ \E w \in Workers : Deliver(w)
    \/ \E w \in Workers : MarkProcessingRead(w)
    \/ \E w \in Workers : MarkProcessingWrite(w)
    \/ \E w \in Workers, outcome \in Outcomes : MarkTerminalRead(w, outcome)
    \/ \E w \in Workers : MarkTerminalWrite(w)
    \/ \E w \in Workers : Ack(w)
    \/ \E w \in Workers : Crash(w)
    \/ \E w \in Workers : Redeliver(w)
    \/ Tick

Spec == Init /\ [][Next]_vars

\* ------------------------------------------------------------ observations
LiveIn(st, t) == redis_get(st, get_task_key(t)) # <<>>
RecordIn(st, t) == json_loads(redis_get(st, get_task_key(t)))
Live(t) == LiveIn(store, t)
Record(t) == RecordIn(store, t)

\* the task ids of the messages on the channel, queued or delivered
ChannelTasks ==
    {TaskOf(queue[i]) : i \in DOMAIN queue} \cup
    {TaskOf(wmsg[w]) : w \in {v \in Workers : wmsg[v] # NoMsg}}

\* what a submitter's metadata argument stands for: omitted means empty
GivenMetadata(m) == IF m.none THEN PyDict(<<>>) ELSE m

Looked == resp.kind # "none"

\* ------------------------------------------------------------------ claims

\* C1: a get_task_status on a task that create_task(P, M) returned, made while
\* no worker has written the record and the record has not expired, returns
\* the record with status PENDING, the same task_id, prompt P and metadata M.
C1_CreateThenGetIsPending ==
    \A t \in TaskIds :
        (Looked /\ resp.task_id = t /\ resp.err = NoError /\ hist[t].returned
            /\ ~hist[t].touched /\ now < hist[t].stored_at + TASK_TTL)
        => /\ resp.kind = "return"
           /\ DOMAIN resp.value =
                 {"task_id", "prompt", "metadata", "created_at", "status"}
           /\ resp.value.status = STATUS_PENDING
           /\ resp.value.task_id = t
           /\ resp.value.prompt = hist[t].prompt
           /\ resp.value.metadata = GivenMetadata(hist[t].metadata)

C1_Witness ==
    \E t \in TaskIds :
        /\ Looked /\ resp.task_id = t /\ resp.err = NoError /\ hist[t].returned
        /\ ~hist[t].touched /\ now < hist[t].stored_at + TASK_TTL
        /\ ~hist[t].metadata.none
        /\ resp.value.metadata = hist[t].metadata

\* C2: a task id is on the Work Channel, or was ever published to it, only if
\* the SETEX of its PENDING record succeeded before; a create_task whose store
\* write failed has enqueued nothing.
C2_NoEnqueueWithoutStore ==
    \A t \in TaskIds :
        (hist[t].published \/ t \in ChannelTasks) => hist[t].stored_at >= 0

C2_Witness ==
    \E t \in TaskIds :
        /\ hist[t].raised /\ hist[t].stored_at < 0
        /\ cret.kind = "raise" /\ cret.task_id = t
        /\ t \notin ChannelTasks

\* C3: when basic_publish fails after the SETEX succeeded, create_task raises
\* and returns no task id, no message of the task is on the channel, and the
\* record stays in the store with status PENDING until its TTL elapses.
C3_PublishFailureSurfaces ==
    \A t \in TaskIds :
        hist[t].pubfailed
        => /\ hist[t].raised /\ ~hist[t].returned
           /\ (cret.kind # "none" /\ cret.task_id = t => cret.kind = "raise")
           /\ ~hist[t].published /\ t \notin ChannelTasks
           /\ (now < hist[t].stored_at + TASK_TTL
                  => Live(t) /\ Record(t).status = STATUS_PENDING)
           /\ (Live(t) => Record(t).status = STATUS_PENDING)

C3_Witness ==
    \E t \in TaskIds :
        /\ hist[t].pubfailed /\ cret.kind = "raise" /\ cret.task_id = t
        /\ Live(t) /\ Record(t).status = STATUS_PENDING

\* C4: get_task_status always returns: NOT_FOUND when the key is absent or
\* expired, ERROR with the text of the failure when the read fails, and a
\* stored record otherwise, whose status is neither NOT_FOUND nor ERROR.
C4_GetStatusNeverRaises ==
    Looked
    => /\ resp.kind = "return"
       /\ (resp.err # NoError
              => resp.value.status = "ERROR" /\ resp.value.error = resp.err.msg)
       /\ (resp.err = NoError /\ resp.miss => resp.value.status = "NOT_FOUND")
       /\ (resp.err = NoError /\ ~resp.miss
              => resp.value.status \in {STATUS_PENDING, STATUS_PROCESSING,
                                        STATUS_COMPLETED, STATUS_FAILED})

C4_Witness ==
    /\ Looked /\ resp.kind = "return"
    /\ resp.err # NoError /\ resp.value.status = "ERROR"
    /\ Live(resp.task_id)

\* C5: a successful read for a task id without a live record - never created,
\* or created and expired - returns the NOT_FOUND value, which depends on the
\* task id alone.
NeverCreated(t) == t > nextId
ExpiredUntouched(t) ==
    /\ t \in TaskIds
    /\ hist[t].stored_at >= 0 /\ ~hist[t].touched
    /\ now >= hist[t].stored_at + TASK_TTL

C5_NoRecordIsNotFound ==
    (Looked /\ resp.err = NoError
        /\ (resp.miss \/ NeverCreated(resp.task_id) \/ ExpiredUntouched(resp.task_id)))
    => /\ resp.kind = "return"
       /\ resp.value = [task_id |-> resp.task_id, status |-> "NOT_FOUND",
                        error |-> "Task not found or expired"]

C5_Witness ==
    /\ Looked /\ resp.err = NoError /\ ExpiredUntouched(resp.task_id)
    /\ resp.value.status = "NOT_FOUND"

\* C6: poll_result looks the task up at most max_attempts times, looks it up
\* again after every lookup that found it PENDING or PROCESSING while attempts
\* remain, and returns the timeout value after exactly max_attempts lookups.
C6_TimeoutAfterExactlyN ==
    /\ (cpc \in {"poll", "sleep"} => cargs.lookups <= cargs.max_attempts)
    /\ (cpc = "poll" => cargs.lookups < cargs.max_attempts)
    /\ (Looked /\ resp.caller = "poll_result" /\ resp.kind = "return"
            /\ resp.value.status \in {STATUS_PENDING, STATUS_PROCESSING}
          => cpc = "sleep" /\ cret = NoRet)
    /\ (cret.why = "timeout"
          => /\ cret.lookups = cret.max_attempts
             /\ cret.value = TimeoutReturn
             /\ cpc = "idle")

C6_Witness ==
    /\ cret.why = "timeout" /\ cret.max_attempts = MaxAttempts
    /\ cret.lookups = MaxAttempts

\* C7: the first lookup of poll_result that reports COMPLETED or FAILED ends
\* the poll: poll_result returns that record, without a further lookup or sleep.
C7_TerminalReturnsAtOnce ==
    (Looked /\ resp.caller = "poll_result" /\ resp.kind = "return"
        /\ resp.value.status \in {STATUS_COMPLETED, STATUS_FAILED})
    => /\ cpc = "idle"
       /\ cret.kind = "return"
       /\ cret.value = resp.value
       /\ cret.slept = cret.poll_interval * (cret.lookups - 1)

C7_Witness ==
    /\ Looked /\ resp.caller = "poll_result"
    /\ resp.value.status = STATUS_FAILED
    /\ cret.kind = "return" /\ cret.lookups < cret.max_attempts

\* C8: a lookup of poll_result that reports NOT_FOUND or ERROR ends the poll at
\* once, whatever the number of attempts left: no further lookup, no sleep.
C8_LostStopsAtOnce ==
    (Looked /\ resp.caller = "poll_result" /\ resp.kind = "return"
        /\ resp.value.status \in {"NOT_FOUND", "ERROR"})
    => /\ cpc = "idle"
       /\ cret.kind = "return"
       /\ cret.slept = cret.poll_interval * (cret.lookups - 1)

C8_Witness ==
    /\ Looked /\ resp.caller = "poll_result"
    /\ resp.value.status = "ERROR"
    /\ cret.kind = "return" /\ cret.lookups < cret.max_attempts

\* C9: the value poll_result returns for a lost record or a store failure
\* differs from the value it returns when the attempts are exhausted.
C9_TimeoutDistinctFromLost ==
    (cret.kind = "return" /\ cret.why \in {"NOT_FOUND", "ERROR"})
    => cret.value # TimeoutReturn

\* C10: the status of a record never moves backward along
\* PENDING -> PROCESSING -> {COMPLETED, FAILED}.
Rank(status) ==
    CASE status = STATUS_PENDING -> 0
      [] status = STATUS_PROCESSING -> 1
      [] OTHER -> 2

C10_StatusMonotonic ==
    [][\A t \in TaskIds :
          (LiveIn(store, t) /\ LiveIn(store', t))
          => Rank(RecordIn(store', t).status) >= Rank(RecordIn(store, t).status)]_vars

\* C11: a record whose status is COMPLETED never becomes FAILED and a record
\* whose status is FAILED never becomes COMPLETED, whichever worker writes.
C11_TerminalIsFinal ==
    [][\A t \in TaskIds :
          (LiveIn(store, t) /\ LiveIn(store', t)
              /\ RecordIn(store, t).status \in {STATUS_COMPLETED, STATUS_FAILED}
              /\ RecordIn(store', t).status \in {STATUS_COMPLETED, STATUS_FAILED})
          => RecordIn(store', t).status = RecordIn(store, t).status]_vars

\* C12: a mark_completed whose write lands on a record that is already
\* COMPLETED with the same result leaves that record as it was, field for field.
C12_MarkCompletedIdempotent ==
    [][\A w \in Workers :
          (wpc[w] = "mt_write" /\ wpc'[w] = "ack"
              /\ wrec[w].status = STATUS_COMPLETED
              /\ LiveIn(store, wrec[w].task_id)
              /\ RecordIn(store, wrec[w].task_id).status = STATUS_COMPLETED
              /\ RecordIn(store, wrec[w].task_id).result = wrec[w].result)
          => RecordIn(store', wrec[w].task_id) = RecordIn(store, wrec[w].task_id)]_vars

\* C13: in every stored record result and error are never both present, both
\* are absent while the status is PENDING or PROCESSING, result is present only
\* with status COMPLETED and error only with status FAILED.
C13_ResultErrorExclusive ==
    \A t \in TaskIds :
        Live(t) =>
            LET rec == Record(t)
                has(f) == f \in DOMAIN rec
            IN  /\ ~(has("result") /\ has("error"))
                /\ (rec.status \in {STATUS_PENDING, STATUS_PROCESSING}
                       => ~has("result") /\ ~has("error"))
                /\ (has("result") => rec.status = STATUS_COMPLETED)
                /\ (has("error") => rec.status = STATUS_FAILED)

\* C14: a mark_processing that finds no record for its task id is a no-op
\* success: the worker goes on to its work, nothing is written or staged for
\* writing, the record is not created again, and a get_task_status made right
\* after the call still reports NOT_FOUND.
C14_MarkProcessingMissingIsNoop ==
    [][\A w \in Workers :
          (wpc[w] = "claimed" /\ wpc'[w] # "claimed" /\ wmsg'[w] = wmsg[w]
              /\ ~LiveIn(store, TaskOf(wmsg[w])))
          => /\ wpc'[w] = "working"
             /\ store' = store
             /\ wrec'[w] = NoRec
             /\ ~LiveIn(store', TaskOf(wmsg[w]))
             /\ get_task_status(store', TaskOf(wmsg[w]), NoError).value
                   = NotFoundResp(TaskOf(wmsg[w]))]_vars

\* a worker past a mark_processing that wrote nothing, its record expired
C14_Witness ==
    \E w \in Workers :
        /\ wpc[w] = "working"
        /\ ~Live(TaskOf(wmsg[w]))
        /\ hist[TaskOf(wmsg[w])].stored_at >= 0
        /\ ~hist[TaskOf(wmsg[w])].touched

\* C15: no message has been acknowledged while the unexpired record of its
\* task is PENDING or PROCESSING: an acknowledgment comes only after the
\* terminal status is in the store.
C15_AckOnlyAfterTerminal ==
    \A t \in TaskIds :
        (hist[t].acked /\ Live(t))
        => Record(t).status \in {STATUS_COMPLETED, STATUS_FAILED}

\* the messages on the channel, queued or held by a worker
ChannelMessages ==
    {queue[i] : i \in DOMAIN queue} \cup {wmsg[w] : w \in {v \in Workers : wmsg[v] # NoMsg}}

\* C16: the payload create_task puts on the Work Channel is the record it
\* wrote to the Status Store under "task:" + task_id: same task_id, prompt,
\* metadata, created_at and status PENDING, and the same serialized text.
C16_PayloadIsStoredRecord ==
    /\ \A m \in ChannelMessages :
          LET t == m.message_id
              rec == json_loads(m.body)
          IN  /\ hist[t].published
              /\ rec = task_payload(t, hist[t].prompt, hist[t].metadata, hist[t].stored_at)
              /\ (Live(t) /\ ~hist[t].touched
                     => m.body = redis_get(store, <<"task:", t>>))
    /\ \A t \in TaskIds :
          (hist[t].published /\ Live(t) /\ ~hist[t].touched)
          => Record(t) = task_payload(t, hist[t].prompt, hist[t].metadata, hist[t].stored_at)

C16_Witness ==
    \E m \in ChannelMessages :
        /\ Live(m.message_id) /\ ~hist[m.message_id].touched
        /\ m.body = redis_get(store, get_task_key(m.message_id))
        /\ json_loads(m.body).metadata.items # <<>>
        /\ json_loads(m.body).status = STATUS_PENDING

\* the number of messages of task t on the channel, queued or held by a worker
MessagesOf(t) ==
    Cardinality({i \in DOMAIN queue : queue[i].message_id = t})
        + Cardinality({w \in Workers : wmsg[w].message_id = t})

\* C17: one create_task call writes at most one key of the store and enqueues
\* at most one message, a failure is raised to the caller at once with no
\* second attempt and no status lookup after it, and the producer never
\* enqueues a task id twice (further copies come from channel redelivery only).
C17_CreateNeverRetried ==
    [][/\ (nextId' # nextId
              => /\ nextId' = nextId + 1
                 /\ hist[nextId'].stored_at = -1
                 /\ \A k \in Keys : store'[k] # store[k] => k = get_task_key(nextId')
                 /\ queue' = queue)
       /\ (cpc = "publish" /\ cpc' # "publish"
              => /\ ~hist[cargs.task_id].published
                 /\ store' = store
                 /\ \/ queue' = queue
                    \/ /\ Len(queue') = Len(queue) + 1
                       /\ hist'[cargs.task_id].returned)
       /\ (cret'.kind = "raise"
              => /\ cpc' = "idle" /\ resp' = NoResp /\ queue' = queue
                 /\ hist'[cret'.task_id].raised /\ ~hist'[cret'.task_id].returned)
       /\ (resp'.caller = "poll_result"
              => hist'[resp'.task_id].returned /\ ~hist'[resp'.task_id].raised)
       /\ \A t \in TaskIds :
             /\ (hist'[t].raised => ~hist'[t].published /\ MessagesOf(t)' = 0)
             /\ MessagesOf(t)' <= (IF hist'[t].published THEN 1 ELSE 0) + redelivered'
      ]_vars

\* create_task has raised after its store write: nothing enqueued, no lookup
C17_Witness ==
    \E t \in TaskIds :
        /\ cret.kind = "raise" /\ cret.why = "create" /\ cret.task_id = t
        /\ hist[t].stored_at >= 0 /\ hist[t].pubfailed
        /\ MessagesOf(t) = 0 /\ ~Looked /\ cpc = "idle"

C19_PollingIsPureRead ==
    [][(resp'.kind # "none" \/ (cpc \in {"poll", "sleep"} /\ cpc' # cpc))
          => /\ store' = store
             /\ queue' = queue
             /\ wmsg' = wmsg]_vars

\* a lookup of poll_result on a live record with a message still queued
C19_Witness ==
    /\ Looked /\ resp.caller = "poll_result"
    /\ resp.task_id \in TaskIds /\ Live(resp.task_id)
    /\ resp.value.status = STATUS_PROCESSING
    /\ queue # <<>>
    /\ now > hist[resp.task_id].stored_at

\* C20: as long as a record exists its task_id, prompt, metadata and
\* created_at are the values written at creation; the transitions, though
\* they write the whole record, change status, completed_at, result and error
\* only.
C20_CreationFieldsImmutable ==
    \A t \in TaskIds :
        Live(t) =>
            LET rec == Record(t)
            IN  /\ {"task_id", "prompt", "metadata", "created_at", "status"}
                       \subseteq DOMAIN rec
                /\ DOMAIN rec \subseteq {FieldOrder[i] : i \in DOMAIN FieldOrder}
                /\ rec.task_id = t
                /\ rec.prompt = hist[t].prompt
                /\ rec.metadata = GivenMetadata(hist[t].metadata)
                /\ rec.created_at = hist[t].stored_at

\* a record a worker has brought to FAILED after the clock moved on
C20_Witness ==
    \E t \in TaskIds :
        /\ Live(t) /\ hist[t].touched
        /\ Record(t).status = STATUS_FAILED
        /\ Record(t).metadata.items # <<>>
        /\ Record(t).completed_at > Record(t).created_at

\* C22: from the SETEX of create_task until TASK_TTL has elapsed the record is
\* in the store, whatever the workers and the pollers do in between, and a
\* get_task_status whose read succeeds returns the record, never NOT_FOUND.
C22_NoDeleteBeforeTTL ==
    \A t \in TaskIds :
        (hist[t].stored_at >= 0 /\ now < hist[t].stored_at + TASK_TTL)
        => /\ Live(t)
           /\ (Looked /\ resp.task_id = t /\ resp.err = NoError)
                 => /\ ~resp.miss
                    /\ resp.value.status # "NOT_FOUND"
                    /\ resp.value.task_id = t

\* a successful lookup in the last tick of the TTL, on a record the workers
\* have written and whose message is acknowledged
C22_Witness ==
    \E t \in TaskIds :
        /\ Looked /\ resp.task_id = t /\ resp.err = NoError
        /\ now = hist[t].stored_at + TASK_TTL - 1
        /\ hist[t].touched /\ hist[t].acked
        /\ resp.value.status = STATUS_COMPLETED

\* ------------------------------------------------------------------ fairness
\* a worker that is past mark_processing and does not crash goes on to the
\* end of its work and through its mark_completed or mark_failed call
WorkerFairness ==
    \A w \in Workers :
        /\ WF_vars(\E outcome \in Outcomes : MarkTerminalRead(w, outcome))
        /\ WF_vars(MarkTerminalWrite(w))

\* submit_and_wait with one polling attempt, the channel, the workers and
\* the clock
FairNext ==
    \/ \E req \in Requests, e \in Failure(StoreErrors) :
            CreateStore(req.prompt, req.metadata, 1, 1, e)
    \/ \E e \in Failure(ChannelErrors) : CreatePublish(e)
    \/ \E e \in Failure(StoreErrors) : PollStep(e)
    \/ Wake
    \/ \E w \in Workers : Deliver(w)
    \/ \E w \in Workers : MarkProcessingRead(w)
    \/ \E w \in Workers : MarkProcessingWrite(w)
    \/ \E w \in Workers, outcome \in Outcomes : MarkTerminalRead(w, outcome)
    \/ \E w \in Workers : MarkTerminalWrite(w)
    \/ \E w \in Workers : Ack(w)
    \/ \E w \in Workers : Crash(w)
    \/ \E w \in Workers : Redeliver(w)
    \/ Tick

FairSpec == Init /\ [][FairNext]_vars /\ WorkerFairness

\* worker w is past mark_processing and has not finished its terminal call
Claimed(w) == wpc[w] \in {"working", "mt_write"}

\* C21 (as stated): a worker past mark_processing that does not crash ends its
\* handler, and when its terminal call is over the record of its task, which
\* mark_processing has written, is in the store with status COMPLETED or
\* FAILED.
C21_ClaimedReachesTerminal ==
    /\ \A w \in Workers : Claimed(w) ~> (wpc[w] \in {"ack", "idle"})
    /\ [][\A w \in Workers :
             (Claimed(w) /\ wpc'[w] = "ack" /\ hist[TaskOf(wmsg[w])].touched)
             => /\ LiveIn(store', TaskOf(wmsg[w]))
                /\ RecordIn(store', TaskOf(wmsg[w])).status
                      \in {STATUS_COMPLETED, STATUS_FAILED}]_vars

\* C21 (amended): a worker past mark_processing that does not crash ends its
\* handler, and when its terminal call is over the record of its task is in
\* the store with status COMPLETED or FAILED, unless the record has expired
\* in the meantime: the worker leaves no PROCESSING record behind.
C21_ClaimedReachesTerminalOrExpires ==
    /\ \A w \in Workers : Claimed(w) ~> (wpc[w] \in {"ack", "idle"})
    /\ [][\A w \in Workers :
             (Claimed(w) /\ wpc'[w] = "ack" /\ hist[TaskOf(wmsg[w])].touched)
             => \/ ~LiveIn(store', TaskOf(wmsg[w]))
                \/ RecordIn(store', TaskOf(wmsg[w])).status
                      \in {STATUS_COMPLETED, STATUS_FAILED}]_vars

\* a worker whose work failed has written FAILED over the PROCESSING record
\* and is about to acknowledge
C21_Witness ==
    \E w \in Workers :
        /\ wpc[w] = "ack"
        /\ hist[TaskOf(wmsg[w])].touched
        /\ Live(TaskOf(wmsg[w]))
        /\ Record(TaskOf(wmsg[w])).status = STATUS_FAILED
        /\ redelivered = 0

====
